---- MODULE Spec2Model ----
(***************************************************************************)
(* Model of the three tag collectors of fp-NGFW-dynamic-tags               *)
(* (aws/main.py, azure/main.py, gcp/main.py).  Each script scans one cloud *)
(* provider's inventory, folds the private addresses of the instances into *)
(* a dict  group name -> address list  (iplists) and pushes every entry to *)
(* the SMC with IPList.update_or_create(append_lists=False).               *)
(*                                                                         *)
(* A behaviour is two consecutive runs of one script (run k, run k+1)      *)
(* against one SMC.  Strings that the scripts build or rewrite (tag keys,  *)
(* tag values, group names) are sequences of characters, so that           *)
(* str.replace and the f-strings are computed, not assumed.                *)
(***************************************************************************)
EXTENDS Integers, Sequences, FiniteSets, TLC

VARIABLES
    provider,      \* which script is run: "aws", "azure" or "gcp"
    config,        \* argparse namespace: page_size, untagged_group, zone
    report_only,   \* config.report_only of the current run
    cloud,         \* the provider's inventory: sequence of raw instances
    external,      \* the SMC's IPLists: list name -> address list
    pc,            \* position of the script's control flow
    next_token,    \* aws: NextToken of describe_instances_all (<<>> is None)
    result,        \* azure: result, subscription -> list of vm_d
    instances,     \* gcp: instances (dict of zones, or the zone pager)
    iplists,       \* the aggregate, a dict in insertion order
    calls,         \* IPList.update_or_create calls issued in this run
    logged_in,     \* session.login() was called in this run
    stdout,        \* what the run printed, in order, the traceback of an
                   \* uncaught exception included
    exit_code,     \* process exit status (-1 while running)
    folded,        \* history: instances the aggregation loop has iterated
    fetches,       \* history: provider listing calls of the current scan
                   \* (a scan starts with the call that passes no token)
    second,        \* FALSE in run k, TRUE in run k+1
    prev           \* summary of run k, kept for run k+1

vars == <<provider, config, report_only, cloud, external, pc, next_token,
          result, instances, iplists, calls, logged_in, stdout, exit_code,
          folded, fetches, second, prev>>

(***************************************************************************)
(* Bounds of the model.                                                    *)
(***************************************************************************)
MaxInst == 2          \* instances in the cloud inventory
SmallPageSize == 1    \* the small --page_size tried next to the default

DefaultPageSize == 100

(***************************************************************************)
(* Strings.                                                                *)
(***************************************************************************)
NameKey == <<"N", "a", "m", "e">>
Underscore == <<"_">>
UntaggedAws == <<"u", "n", "t", "a", "g", "g", "e", "d", "-", "a", "w", "s", "-">>

\* str.replace(' ', '_')
ReplaceSpaces(s) == [i \in 1..Len(s) |-> IF s[i] = " " THEN "_" ELSE s[i]]

(***************************************************************************)
(* The inventories the scripts are run against.  A raw instance carries    *)
(* its tags (labels) in the provider's order, the private addresses of its *)
(* network interfaces and its scope: the availability zone and reservation *)
(* (aws), the subscription (azure) or the zone (gcp) that lists it.        *)
(***************************************************************************)
Tag(k, v) == [Key |-> k, Value |-> v]

Scopes == << <<"z", "1">>, <<"z", "2">>, <<"z", "3">> >>

Catalogue ==
    { \* only a Name tag
      [tags |-> << Tag(NameKey, <<"w">>) >>,
       addrs |-> <<"ip1">>, scope |-> Scopes[1]],
      \* no tag at all
      [tags |-> << >>,
       addrs |-> <<"ip2">>, scope |-> Scopes[2]],
      \* a Name tag and one tag whose key holds a space
      [tags |-> << Tag(NameKey, <<"w">>), Tag(<<"a", " ", "b">>, <<"x">>) >>,
       addrs |-> <<"ip3">>, scope |-> Scopes[3]],
      \* a Name tag and two tags, two interfaces
      [tags |-> << Tag(<<"a">>, <<"b", "_", "x">>), Tag(NameKey, <<"d">>),
                   Tag(<<"a", "_", "b">>, <<"x">>) >>,
       addrs |-> <<"ip4", "ip5">>, scope |-> Scopes[1]],
      \* a Name tag and a tag without value, no network interface
      [tags |-> << Tag(NameKey, <<"w">>), Tag(<<"a">>, << >>) >>,
       addrs |-> << >>, scope |-> Scopes[2]],
      \* one tag, no Name tag
      [tags |-> << Tag(<<"a">>, <<"x">>) >>,
       addrs |-> <<"ip6">>, scope |-> Scopes[3]],
      \* one tag without value, no Name tag, no network interface
      [tags |-> << Tag(<<"a">>, << >>) >>,
       addrs |-> << >>, scope |-> Scopes[1]] }

\* Labels GCP accepts: lowercase keys (so no key 'Name'), no space in keys
\* and values.
GcpLabels(inst) ==
    \A i \in 1..Len(inst.tags) :
        /\ inst.tags[i].Key # NameKey
        /\ \A j \in 1..Len(inst.tags[i].Key) : inst.tags[i].Key[j] # " "
        /\ \A j \in 1..Len(inst.tags[i].Value) : inst.tags[i].Value[j] # " "

Inventories == UNION { [1..n -> Catalogue] : n \in 0..MaxInst }

PageSizes == {SmallPageSize, DefaultPageSize}

UntaggedGroups == { << >>, <<"l", "f">> }     \* << >>: --untagged_group not given

\* What the SMC holds before run k.
NoLists == [n \in {} |-> << >>]
StaleLists == [n \in { <<"a", "_", "x">>, <<"a", "_", "b", "_", "x">>, <<"o", "l", "d">> }
                 |-> <<"ip9">>]
Externals == {NoLists, StaleLists}

(***************************************************************************)
(* Helpers.                                                                *)
(***************************************************************************)
Min(a, b) == IF a < b THEN a ELSE b

RECURSIVE Flatten(_)
Flatten(ss) == IF ss = << >> THEN << >> ELSE Head(ss) \o Flatten(Tail(ss))

\* The instances of an inventory that one scope lists, in inventory order.
ScopeGroup(cl, s) == SelectSeq(cl, LAMBDA inst : inst.scope = s)

\* The inventory grouped by scope, scopes without instance included.
ByScope(cl) == [k \in 1..Len(Scopes) |-> ScopeGroup(cl, Scopes[k])]

(***************************************************************************)
(* The aggregate.  iplists is a Python dict: a sequence of entries         *)
(* [name, ips] in insertion order, no name twice.                          *)
(***************************************************************************)
Names(ipl) == {ipl[i].name : i \in 1..Len(ipl)}

\* iplists.setdefault(name, []).extend(addrs)
SetDefaultExtend(ipl, name, addrs) ==
    IF name \in Names(ipl)
    THEN [i \in 1..Len(ipl) |->
            IF ipl[i].name = name
            THEN [name |-> name, ips |-> ipl[i].ips \o addrs]
            ELSE ipl[i]]
    ELSE Append(ipl, [name |-> name, ips |-> addrs])

\* for tag in tags: iplists.setdefault(name, []).extend(private_address)
RECURSIVE ExtendEach(_, _, _)
ExtendEach(ipl, names, addrs) ==
    IF names = << >> THEN ipl
    ELSE ExtendEach(SetDefaultExtend(ipl, Head(names), addrs), Tail(names), addrs)

(***************************************************************************)
(* aws/main.py                                                             *)
(***************************************************************************)
HasNameTag(inst) == \E i \in 1..Len(inst.tags) : inst.tags[i].Key = NameKey

\* What EC2 answers to Filters = [tag:Name = *]: the reservations that hold
\* an instance with a Name tag, each with those instances only.
Reservations(cl) ==
    SelectSeq(ByScope(SelectSeq(cl, HasNameTag)), LAMBDA r : r # << >>)

\* One instance of a reservation as describe_instances returns it.
AwsInstance(inst) ==
    [tags |-> SelectSeq(inst.tags, LAMBDA t : t.Key # NameKey),
     private_address |-> inst.addrs,
     placement |-> inst.scope]

\* describe_instances: the paginator starts at next_token when it is truthy,
\* returns at most max_items reservations and a NextToken when it truncated.
DescribeInstances(cl, token, max_items) ==
    LET rs == Reservations(cl)
        start == IF token # << >> /\ token[1] # 0 THEN token[1] ELSE 0
        stop == Min(start + max_items, Len(rs))
        raw == Flatten(SubSeq(rs, start + 1, stop))
    IN  [ec2_list |-> [i \in 1..Len(raw) |-> AwsInstance(raw[i])],
         raw |-> raw,
         NextToken |-> IF stop < Len(rs) THEN <<stop>> ELSE << >>]

\* name = f"{key}_{value}" after replace(' ', '_') on key and value
AwsTagName(tag) == ReplaceSpaces(tag.Key) \o Underscore \o ReplaceSpaces(tag.Value)

\* The group names one instance is added to by the aws aggregation loop.
AwsGroupNames(instance, untagged_group) ==
    IF instance.tags # << >>
    THEN [i \in 1..Len(instance.tags) |-> AwsTagName(instance.tags[i])]
    ELSE IF untagged_group # << >>
         THEN << untagged_group >>
         ELSE << UntaggedAws \o instance.placement >>

\* One pass of the body of  for instance in batch
AwsAggregateInstance(ipl, instance, untagged_group) ==
    ExtendEach(ipl, AwsGroupNames(instance, untagged_group), instance.private_address)

\* for instance in batch: ...
RECURSIVE AwsAggregateBatch(_, _, _)
AwsAggregateBatch(ipl, batch, untagged_group) ==
    IF batch = << >> THEN ipl
    ELSE AwsAggregateBatch(AwsAggregateInstance(ipl, Head(batch), untagged_group),
                           Tail(batch), untagged_group)

(***************************************************************************)
(* azure/main.py                                                           *)
(***************************************************************************)
\* subscription_client.subscriptions.list(): the subscriptions that hold a VM
Subscriptions(cl) ==
    SelectSeq(Scopes, LAMBDA s : ScopeGroup(cl, s) # << >>)

\* get_virtual_machine_details
VmDetails(vm) == [tags |-> vm.tags, private_address |-> vm.addrs]

\* compute_client.virtual_machines.list_all() of one subscription
VirtualMachines(cl, subscription_id) ==
    LET vms == ScopeGroup(cl, subscription_id)
    IN  [i \in 1..Len(vms) |-> VmDetails(vms[i])]

\* name = f"{tag}_{_value}" if _value else f"{tag}"
LabelName(key, value) == IF value # << >> THEN key \o Underscore \o value ELSE key

AzureGroupNames(value) ==
    [i \in 1..Len(value.tags) |-> LabelName(value.tags[i].Key, value.tags[i].Value)]

\* One pass of the body of  for value in values  (no else branch: a VM
\* without tags adds nothing)
AzureAggregateValue(ipl, value) ==
    IF value.tags # << >>
    THEN ExtendEach(ipl, AzureGroupNames(value), value.private_address)
    ELSE ipl

\* for subscription, values in result.items(): for value in values: ...
RECURSIVE AzureAggregate(_, _)
AzureAggregate(ipl, values) ==
    IF values = << >> THEN ipl
    ELSE AzureAggregate(AzureAggregateValue(ipl, Head(values)), Tail(values))

(***************************************************************************)
(* gcp/main.py                                                             *)
(***************************************************************************)
\* hostdata of list_all_instances; the key 'private_address' exists only
\* once an interface was seen: << >> is the missing key, <<list>> the list.
HostData(inst) ==
    [private_addresses |-> << >>,
     labels |-> inst.tags,
     private_address |-> IF inst.addrs = << >> THEN << >> ELSE << inst.addrs >>]

\* list_all_instances: zones with instances only, in the pager's order
ListAllInstances(cl) ==
    LET zs == SelectSeq(ByScope(cl), LAMBDA z : z # << >>)
    IN  [k \in 1..Len(zs) |->
            [zone |-> zs[k][1].scope,
             hosts |-> [i \in 1..Len(zs[k]) |-> HostData(zs[k][i])]]]

GcpGroupNames(host) ==
    [i \in 1..Len(host.labels) |-> LabelName(host.labels[i].Key, host.labels[i].Value)]

\* extend(host.get('private_address')) raises TypeError on None
GcpHostRaises(host) == host.labels # << >> /\ host.private_address = << >>

\* One pass of the body of  for host in instance, for a host that does not
\* raise
GcpAggregateHost(ipl, host) ==
    IF host.labels # << >>
    THEN ExtendEach(ipl, GcpGroupNames(host), host.private_address[1])
    ELSE ipl

\* The aggregation loop over the hosts of all zones, up to the first host
\* that raises: the entry of its first label is created before the raise.
\* done counts the hosts whose pass completed.
RECURSIVE GcpAggregate(_, _)
GcpAggregate(ipl, hosts) ==
    IF hosts = << >> THEN [iplists |-> ipl, ok |-> TRUE, done |-> 0]
    ELSE IF GcpHostRaises(Head(hosts))
         THEN [iplists |-> SetDefaultExtend(ipl, GcpGroupNames(Head(hosts))[1], << >>),
               ok |-> FALSE, done |-> 0]
         ELSE LET r == GcpAggregate(GcpAggregateHost(ipl, Head(hosts)), Tail(hosts))
              IN  [iplists |-> r.iplists, ok |-> r.ok, done |-> r.done + 1]

(***************************************************************************)
(* smc: IPList.update_or_create(name, iplist, append_lists)                *)
(***************************************************************************)
\* UpdateOrCreate gone wrong: the addresses sent are added to what the list
\* holds, whatever the flag says.
UpdateOrCreateExtend(ext, name, iplist, append_lists) ==
    LET old == IF name \in DOMAIN ext THEN ext[name] ELSE << >>
    IN  [n \in DOMAIN ext \cup {name} |-> IF n = name THEN old \o iplist ELSE ext[n]]

\* With append_lists=False the list is created or overwritten with iplist;
\* with append_lists=True the addresses it lacks are added to it.
UpdateOrCreate(ext, name, iplist, append_lists) ==
    LET old == IF name \in DOMAIN ext THEN ext[name] ELSE << >>
        have == {old[i] : i \in 1..Len(old)}
        new == IF append_lists
               THEN old \o SelectSeq(iplist, LAMBDA a : a \notin have)
               ELSE iplist
    IN  [n \in DOMAIN ext \cup {name} |-> IF n = name THEN new ELSE ext[n]]

(***************************************************************************)
(* History of the aggregation loop: for every instance the loop iterated,  *)
(* the raw instance and the entries that received its address list, with   *)
(* the number of times they received it, measured on the aggregate before  *)
(* and after the pass.                                                     *)
(***************************************************************************)
IpsLen(ipl, name) ==
    IF name \in Names(ipl)
    THEN Len(ipl[CHOOSE i \in 1..Len(ipl) : ipl[i].name = name].ips)
    ELSE 0

Received(before, after, addrs) ==
    IF addrs = << >> THEN {}
    ELSE { [name |-> after[i].name,
            times |-> (Len(after[i].ips) - IpsLen(before, after[i].name)) \div Len(addrs)] :
           i \in {j \in 1..Len(after) : Len(after[j].ips) > IpsLen(before, after[j].name)} }

\* One pass of the aggregation loop of script p.
LoopBody(p, untagged_group, ipl, x) ==
    IF p = "aws" THEN AwsAggregateInstance(ipl, x, untagged_group)
    ELSE IF p = "azure" THEN AzureAggregateValue(ipl, x)
    ELSE GcpAggregateHost(ipl, x)

RECURSIVE FoldTrace(_, _, _, _, _)
FoldTrace(p, untagged_group, ipl, batch, raws) ==
    IF batch = << >> THEN << >>
    ELSE LET after == LoopBody(p, untagged_group, ipl, Head(batch))
         IN  << [raw |-> Head(raws),
                 received |-> Received(ipl, after, Head(raws).addrs)] >>
             \o FoldTrace(p, untagged_group, after, Tail(batch), Tail(raws))

(***************************************************************************)
(* The state machine.                                                      *)
(***************************************************************************)
Providers == {"aws", "azure", "gcp"}

Configs(p) ==
    IF p = "aws"
    THEN [page_size : PageSizes, untagged_group : UntaggedGroups, zone : { << >> }]
    ELSE IF p = "gcp"
    THEN [page_size : {DefaultPageSize}, untagged_group : { << >> },
          zone : { << >>, Scopes[1] }]
    ELSE [page_size : {DefaultPageSize}, untagged_group : { << >> }, zone : { << >> }]

StartPc(p) ==
    IF p = "aws" THEN "aws_vpcs"
    ELSE IF p = "azure" THEN "azure_subscriptions" ELSE "gcp_list"

NoInstances == [kind |-> "none", items |-> << >>]

NoRun == [report_only |-> FALSE, cloud |-> << >>, external |-> NoLists,
          iplists |-> << >>, stdout |-> << >>, pc |-> "none", exit_code |-> -1]

Init ==
    /\ provider \in Providers
    /\ config \in Configs(provider)
    /\ report_only \in BOOLEAN
    /\ cloud \in Inventories
    /\ provider = "gcp" => \A i \in 1..Len(cloud) : GcpLabels(cloud[i])
    /\ external \in Externals
    /\ pc = StartPc(provider)
    /\ next_token = << >>
    /\ result = << >>
    /\ instances = NoInstances
    /\ iplists = << >>
    /\ calls = << >>
    /\ logged_in = FALSE
    /\ stdout = << >>
    /\ exit_code = -1
    /\ folded = << >>
    /\ fetches = 0
    /\ second = FALSE
    /\ prev = NoRun

\* if config.report_only: pprint(iplists); sys.exit(0) / else the publish loop
AfterAggregation == IF report_only THEN "report" ELSE "publish"

\* The statement that follows session.login() in each script.
AfterLogin ==
    IF provider = "aws" THEN "aws_scan"
    ELSE IF provider = "azure" THEN "azure_aggregate" ELSE "gcp_aggregate"

Out(what, val) == [what |-> what, val |-> val]

\* The interpreter's report of an uncaught exception.
Traceback(exception) == Out("traceback", exception)

----
\* aws: VPC discovery, then  if config.report_only: print(f"VPCs: {vpc_ids}")
AwsVpcDiscovery ==
    /\ pc = "aws_vpcs"
    /\ stdout' = IF report_only THEN Append(stdout, Out("vpcs", << >>)) ELSE stdout
    /\ pc' = IF report_only THEN "aws_report_scan" ELSE "login"
    /\ UNCHANGED <<provider, config, report_only, cloud, external, next_token, result,
                   instances, iplists, calls, logged_in, exit_code, folded, fetches,
                   second, prev>>

\* aws, report_only: for batch in describe_instances_all(...): pprint(batch)
AwsReportBatch ==
    /\ pc = "aws_report_scan"
    /\ LET r == DescribeInstances(cloud, next_token, config.page_size)
       IN  /\ stdout' = Append(stdout, Out("batch", r.ec2_list))
           /\ next_token' = r.NextToken
           /\ pc' = IF r.NextToken = << >> THEN "login" ELSE "aws_report_scan"
    /\ fetches' = IF next_token = << >> THEN 1 ELSE fetches + 1
    /\ UNCHANGED <<provider, config, report_only, cloud, external, result, instances,
                   iplists, calls, logged_in, exit_code, folded, second, prev>>

\* Login gone wrong: the session is opened whatever --report_only says.
LoginAlways ==
    /\ pc = "login"
    /\ logged_in' = TRUE
    /\ pc' = AfterLogin
    /\ UNCHANGED <<provider, config, report_only, cloud, external, next_token, result,
                   instances, iplists, calls, stdout, exit_code, folded, fetches,
                   second, prev>>

\* if not config.report_only: session.login()
Login ==
    /\ pc = "login"
    /\ ~report_only
    /\ logged_in' = TRUE
    /\ pc' = AfterLogin
    /\ UNCHANGED <<provider, config, report_only, cloud, external, next_token, result,
                   instances, iplists, calls, stdout, exit_code, folded, fetches,
                   second, prev>>

\* report_only: the login is skipped
SkipLogin ==
    /\ pc = "login"
    /\ report_only
    /\ pc' = AfterLogin
    /\ UNCHANGED <<provider, config, report_only, cloud, external, next_token, result,
                   instances, iplists, calls, logged_in, stdout, exit_code, folded,
                   fetches, second, prev>>

\* AwsScanBatch gone wrong: NextToken is not followed, the scan ends with
\* the first page.
AwsScanFirstPageOnly ==
    /\ pc = "aws_scan"
    /\ LET r == DescribeInstances(cloud, next_token, config.page_size)
       IN  /\ iplists' = AwsAggregateBatch(iplists, r.ec2_list, config.untagged_group)
           /\ folded' = folded \o
                  FoldTrace("aws", config.untagged_group, iplists, r.ec2_list, r.raw)
    /\ next_token' = << >>
    /\ pc' = AfterAggregation
    /\ fetches' = IF next_token = << >> THEN 1 ELSE fetches + 1
    /\ UNCHANGED <<provider, config, report_only, cloud, external, result, instances,
                   calls, logged_in, stdout, exit_code, second, prev>>

\* AwsScanBatch gone wrong: every page is folded into an empty dict.
AwsScanResetPerPage ==
    /\ pc = "aws_scan"
    /\ LET r == DescribeInstances(cloud, next_token, config.page_size)
       IN  /\ iplists' = AwsAggregateBatch(<< >>, r.ec2_list, config.untagged_group)
           /\ folded' = folded \o
                  FoldTrace("aws", config.untagged_group, << >>, r.ec2_list, r.raw)
           /\ next_token' = r.NextToken
           /\ pc' = IF r.NextToken = << >> THEN AfterAggregation ELSE "aws_scan"
    /\ fetches' = IF next_token = << >> THEN 1 ELSE fetches + 1
    /\ UNCHANGED <<provider, config, report_only, cloud, external, result, instances,
                   calls, logged_in, stdout, exit_code, second, prev>>

\* aws: one pass of  for batch in describe_instances_all(...): the generator
\* fetches the next page and the loop body folds it into iplists
AwsScanBatch ==
    /\ pc = "aws_scan"
    /\ LET r == DescribeInstances(cloud, next_token, config.page_size)
       IN  /\ iplists' = AwsAggregateBatch(iplists, r.ec2_list, config.untagged_group)
           /\ folded' = folded \o
                  FoldTrace("aws", config.untagged_group, iplists, r.ec2_list, r.raw)
           /\ next_token' = r.NextToken
           /\ pc' = IF r.NextToken = << >> THEN AfterAggregation ELSE "aws_scan"
    /\ fetches' = IF next_token = << >> THEN 1 ELSE fetches + 1
    /\ UNCHANGED <<provider, config, report_only, cloud, external, result, instances,
                   calls, logged_in, stdout, exit_code, second, prev>>

----
\* azure: subscription_client.subscriptions.list(); sys.exit(1) when none
AzureListSubscriptions ==
    /\ pc = "azure_subscriptions"
    /\ IF Subscriptions(cloud) = << >>
       THEN pc' = "done" /\ exit_code' = 1
       ELSE pc' = "azure_scan" /\ exit_code' = exit_code
    /\ UNCHANGED <<provider, config, report_only, cloud, external, next_token, result,
                   instances, iplists, calls, logged_in, stdout, folded, fetches,
                   second, prev>>

\* azure: one pass of  for subscription_id in subscriptions
AzureScanSubscription ==
    /\ pc = "azure_scan"
    /\ LET subscriptions == Subscriptions(cloud)
           k == Len(result) + 1
       IN  /\ result' = Append(result,
                  [subscription |-> subscriptions[k],
                   values |-> VirtualMachines(cloud, subscriptions[k])])
           /\ pc' = IF k < Len(subscriptions) THEN "azure_scan"
                    ELSE IF report_only THEN "azure_report" ELSE "login"
    /\ fetches' = fetches + 1
    /\ UNCHANGED <<provider, config, report_only, cloud, external, next_token, instances,
                   iplists, calls, logged_in, stdout, exit_code, folded, second, prev>>

\* azure: if config.report_only: pprint(result); sys.exit(0)
AzureReport ==
    /\ pc = "azure_report"
    /\ stdout' = Append(stdout, Out("result", result))
    /\ pc' = "done"
    /\ exit_code' = 0
    /\ UNCHANGED <<provider, config, report_only, cloud, external, next_token, result,
                   instances, iplists, calls, logged_in, folded, fetches, second, prev>>

\* azure: for subscription, values in result.items(): ...
AzureAggregateAll ==
    /\ pc = "azure_aggregate"
    /\ LET values == Flatten([k \in 1..Len(result) |-> result[k].values])
           raws == Flatten([k \in 1..Len(result) |->
                               ScopeGroup(cloud, result[k].subscription)])
       IN  /\ iplists' = AzureAggregate(iplists, values)
           /\ folded' = folded \o
                  FoldTrace("azure", << >>, iplists, values, raws)
    /\ stdout' = stdout \o
           [k \in 1..Len(result) |-> Out("subscription", result[k].subscription)]
    /\ pc' = "publish"
    /\ UNCHANGED <<provider, config, report_only, cloud, external, next_token, result,
                   instances, calls, logged_in, exit_code, fetches, second, prev>>

----
\* gcp: list_instances (--zone) or list_all_instances, then
\* if config.report_only: pprint(instances)
GcpList ==
    /\ pc = "gcp_list"
    /\ instances' = IF config.zone # << >>
                    THEN [kind |-> "pager", items |-> ScopeGroup(cloud, config.zone)]
                    ELSE [kind |-> "dict", items |-> ListAllInstances(cloud)]
    /\ stdout' = IF report_only THEN Append(stdout, Out("instances", instances'))
                 ELSE stdout
    /\ pc' = "login"
    /\ fetches' = fetches + 1
    /\ UNCHANGED <<provider, config, report_only, cloud, external, next_token, result,
                   iplists, calls, logged_in, exit_code, folded, second, prev>>

\* gcp: for zone, instance in instances.items(): for host in instance: ...
\* The pager of list_instances has no items(): AttributeError.
GcpAggregateAll ==
    /\ pc = "gcp_aggregate"
    /\ IF instances.kind = "pager"
       THEN /\ pc' = "crashed"
            /\ exit_code' = 1
            /\ stdout' = Append(stdout, Traceback("AttributeError"))
            /\ UNCHANGED <<iplists, folded>>
       ELSE LET zones == instances.items
                hosts == Flatten([k \in 1..Len(zones) |-> zones[k].hosts])
                raws == Flatten([k \in 1..Len(zones) |-> ScopeGroup(cloud, zones[k].zone)])
                r == GcpAggregate(iplists, hosts)
            IN  /\ iplists' = r.iplists
                /\ folded' = folded \o
                       FoldTrace("gcp", << >>, iplists, SubSeq(hosts, 1, r.done), raws)
                /\ pc' = IF r.ok THEN AfterAggregation ELSE "crashed"
                /\ exit_code' = IF r.ok THEN exit_code ELSE 1
                /\ stdout' = IF r.ok THEN stdout
                             ELSE Append(stdout, Traceback("TypeError"))
    /\ UNCHANGED <<provider, config, report_only, cloud, external, next_token, result,
                   instances, calls, logged_in, fetches, second, prev>>

----
\* if config.report_only: pprint(iplists); sys.exit(0)   (aws, gcp)
Report ==
    /\ pc = "report"
    /\ stdout' = Append(stdout, Out("iplists", iplists))
    /\ pc' = "done"
    /\ exit_code' = 0
    /\ UNCHANGED <<provider, config, report_only, cloud, external, next_token, result,
                   instances, iplists, calls, logged_in, folded, fetches, second, prev>>

\* AppendLists gone wrong: the flag is left at append.
AppendListsTrue == TRUE

\* The flag every script passes to IPList.update_or_create.
AppendLists == FALSE

Call(entry, ok) ==
    [name |-> entry.name, iplist |-> entry.ips, append_lists |-> AppendLists, ok |-> ok]

\* One pass of  for listname, ipaddrs in iplists.items()  whose call returns
Publish ==
    /\ pc = "publish"
    /\ Len(calls) < Len(iplists)
    /\ LET entry == iplists[Len(calls) + 1]
       IN  /\ calls' = Append(calls, Call(entry, TRUE))
           /\ external' = UpdateOrCreate(external, entry.name, entry.ips, AppendLists)
           /\ stdout' = Append(stdout, Out("operated", entry.name))
    /\ UNCHANGED <<provider, config, report_only, cloud, pc, next_token, result,
                   instances, iplists, logged_in, exit_code, folded, fetches, second,
                   prev>>

\* One pass of the publish loop whose call raises: nothing catches it
PublishFails ==
    /\ pc = "publish"
    /\ Len(calls) < Len(iplists)
    /\ calls' = Append(calls, Call(iplists[Len(calls) + 1], FALSE))
    /\ pc' = "crashed"
    /\ exit_code' = 1
    /\ stdout' = Append(stdout, Traceback("SMCException"))
    /\ UNCHANGED <<provider, config, report_only, cloud, external, next_token, result,
                   instances, iplists, logged_in, folded, fetches, second, prev>>

\* The publish loop is exhausted: sys.exit(0)
Exit ==
    /\ pc = "publish"
    /\ Len(calls) = Len(iplists)
    /\ pc' = "done"
    /\ exit_code' = 0
    /\ UNCHANGED <<provider, config, report_only, cloud, external, next_token, result,
                   instances, iplists, calls, logged_in, stdout, folded, fetches,
                   second, prev>>

\* The positions at which the next step is a provider listing call.
ListingCalls ==
    {"aws_vpcs", "aws_report_scan", "aws_scan", "azure_subscriptions", "azure_scan",
     "gcp_list"}

\* ProviderFails gone wrong: a failure of a later page of the aws scan is
\* swallowed and the loop ends as if the inventory were exhausted.
ProviderFailsSwallowed ==
    /\ pc \in ListingCalls
    /\ IF pc = "aws_scan" /\ next_token # << >>
       THEN /\ pc' = AfterAggregation
            /\ next_token' = << >>
            /\ UNCHANGED <<exit_code, stdout>>
       ELSE /\ pc' = "crashed"
            /\ exit_code' = 1
            /\ stdout' = Append(stdout, Traceback("ProviderError"))
            /\ UNCHANGED next_token
    /\ UNCHANGED <<provider, config, report_only, cloud, external, result,
                   instances, iplists, calls, logged_in, folded, fetches, second, prev>>

\* A provider listing call raises (ClientError is logged and re-raised in
\* aws; nothing catches it in azure and gcp)
ProviderFails ==
    /\ pc \in ListingCalls
    /\ pc' = "crashed"
    /\ exit_code' = 1
    /\ stdout' = Append(stdout, Traceback("ProviderError"))
    /\ UNCHANGED <<provider, config, report_only, cloud, external, next_token, result,
                   instances, iplists, calls, logged_in, folded, fetches, second, prev>>

----
\* The script is run again (run k+1): nothing but the SMC's lists survives;
\* the inventory is the same or has lost one instance.  After an uncaught
\* exception the same command is run again over the same inventory.
RemoveAt(seq, i) == SubSeq(seq, 1, i - 1) \o SubSeq(seq, i + 1, Len(seq))

NextRun ==
    /\ pc \in {"done", "crashed"}
    /\ ~second
    /\ second' = TRUE
    /\ prev' = [report_only |-> report_only, cloud |-> cloud, external |-> external,
                iplists |-> iplists, stdout |-> stdout, pc |-> pc,
                exit_code |-> exit_code]
    /\ cloud' \in {cloud} \cup {RemoveAt(cloud, i) : i \in 1..Len(cloud)}
    /\ report_only' \in BOOLEAN
    /\ pc = "crashed" => cloud' = cloud /\ report_only' = report_only
    /\ pc' = StartPc(provider)
    /\ next_token' = << >>
    /\ result' = << >>
    /\ instances' = NoInstances
    /\ iplists' = << >>
    /\ calls' = << >>
    /\ logged_in' = FALSE
    /\ stdout' = << >>
    /\ exit_code' = -1
    /\ folded' = << >>
    /\ fetches' = 0
    /\ UNCHANGED <<provider, config, external>>

Next ==
    \/ AwsVpcDiscovery
    \/ AwsReportBatch
    \/ Login
    \/ SkipLogin
    \/ AwsScanBatch
    \/ AzureListSubscriptions
    \/ AzureScanSubscription
    \/ AzureReport
    \/ AzureAggregateAll
    \/ GcpList
    \/ GcpAggregateAll
    \/ Report
    \/ Publish
    \/ PublishFails
    \/ Exit
    \/ ProviderFails
    \/ NextRun

Spec == Init /\ [][Next]_vars

TypeOK ==
    /\ provider \in Providers
    /\ pc \in {"aws_vpcs", "aws_report_scan", "login", "aws_scan", "azure_subscriptions",
               "azure_scan", "azure_report", "azure_aggregate", "gcp_list",
               "gcp_aggregate", "report", "publish", "done", "crashed"}
    /\ exit_code \in {-1, 0, 1}
    /\ (pc \in {"done", "crashed"}) = (exit_code # -1)
    /\ Len(cloud) <= MaxInst

(***************************************************************************)
(* Vocabulary of the properties.                                           *)
(***************************************************************************)
Elems(seq) == {seq[i] : i \in 1..Len(seq)}

\* The aggregation loop has run to its end in the current run.
AggregationDone == pc \in {"report", "publish"}

NonNameTags(inst) == SelectSeq(inst.tags, LAMBDA t : t.Key # NameKey)

\* The fallback group of an instance: untagged-<provider>-<zone>, or the
\* --untagged_group override.
UntaggedPrefix ==
    <<"u", "n", "t", "a", "g", "g", "e", "d", "-">> \o
    (IF provider = "aws" THEN <<"a", "w", "s">>
     ELSE IF provider = "azure" THEN <<"a", "z", "u", "r", "e">> ELSE <<"g", "c", "p">>)
    \o <<"-">>

FallbackName(inst) ==
    IF config.untagged_group # << >> THEN config.untagged_group
    ELSE UntaggedPrefix \o inst.scope

\* The instances the provider lists to the script, in the order of the scan.
Scanned ==
    IF provider = "aws" THEN Flatten(Reservations(cloud)) ELSE Flatten(ByScope(cloud))

FoldedRaw == [i \in 1..Len(folded) |-> folded[i].raw]

\* The addresses the aggregate of the current run holds for group g.
Contributed(g) ==
    UNION {Elems(iplists[i].ips) : i \in {j \in 1..Len(iplists) : iplists[j].name = g}}

\* A run in publish mode that reached sys.exit(0).
PublishedAll == pc = "done" /\ exit_code = 0 /\ ~report_only
PrevPublishedAll == prev.pc = "done" /\ prev.exit_code = 0 /\ ~prev.report_only

(***************************************************************************)
(* C1: in each script, an instance without any tag other than Name has its *)
(* private addresses appended to exactly one entry of the aggregate, the   *)
(* fallback group (untagged-<provider>-<zone>, or --untagged_group), once, *)
(* and to no other entry.  The azure and gcp loops have no else branch.    *)
(***************************************************************************)
C1_UntaggedLandInFallback ==
    AggregationDone =>
        \A i \in 1..Len(folded) :
            (NonNameTags(folded[i].raw) = << >> /\ folded[i].raw.addrs # << >>)
            => folded[i].received = {[name |-> FallbackName(folded[i].raw), times |-> 1]}

(***************************************************************************)
(* C2: an instance with N >= 1 tags other than Name has its address list   *)
(* added to exactly N distinct entries of the aggregate, once to each.     *)
(***************************************************************************)
C2_FanOutToExactlyN ==
    AggregationDone =>
        \A i \in 1..Len(folded) :
            LET n == Len(NonNameTags(folded[i].raw))
            IN  (n >= 1 /\ folded[i].raw.addrs # << >>)
                => /\ Cardinality(folded[i].received) = n
                   /\ \A r \in folded[i].received : r.times = 1

(***************************************************************************)
(* C3: a publish-mode run in which every call succeeds has issued exactly  *)
(* one update_or_create call per group name of the final aggregate, no     *)
(* other call, each with the group's whole address list and                *)
(* append_lists=False.                                                     *)
(***************************************************************************)
C3_OneReplaceCallPerGroup ==
    PublishedAll =>
        /\ Len(calls) = Len(iplists)
        /\ Cardinality(Names(iplists)) = Len(iplists)
        /\ \A i \in 1..Len(calls) :
               calls[i] = [name |-> iplists[i].name, iplist |-> iplists[i].ips,
                           append_lists |-> FALSE, ok |-> TRUE]

C3_Witness ==
    /\ PublishedAll
    /\ Len(calls) >= 2
    /\ \E i \in 1..Len(iplists) : Len(iplists[i].ips) >= 2

(***************************************************************************)
(* C4: after two consecutive publish-mode runs, an address that list G     *)
(* held after run k and that no instance contributes to G on run k+1 is    *)
(* not in list G after run k+1, for every list G that run k published,     *)
(* whether or not G is still in the aggregate of run k+1.                  *)
(***************************************************************************)
C4_DeletedAddressesLeave ==
    (second /\ PublishedAll /\ PrevPublishedAll) =>
        \A g \in Names(prev.iplists) :
            \A a \in Elems(prev.external[g]) :
                a \notin Contributed(g) => a \notin Elems(external[g])

(***************************************************************************)
(* C5: a run with --report_only never calls session.login() and never      *)
(* calls IPList.update_or_create, in any of the three scripts.             *)
(***************************************************************************)
C5_ReportOnlyTouchesNoSmc ==
    report_only =>
        /\ ~logged_in
        /\ calls = << >>
        /\ external = IF second THEN prev.external ELSE external

C5_Witness ==
    /\ report_only
    /\ pc = "done"
    /\ exit_code = 0
    /\ stdout # << >>

(***************************************************************************)
(* C6: in report-only mode each script prints the aggregate, and what it   *)
(* prints equals the aggregate the same script hands to the publish loop   *)
(* in publish mode for the same inventory.  Run k is the report-only run,  *)
(* run k+1 the publish-mode run.                                           *)
(***************************************************************************)
C6_ReportPrintsTheAggregate ==
    (/\ second
     /\ prev.report_only /\ prev.pc = "done" /\ prev.exit_code = 0
     /\ ~report_only /\ pc = "publish"
     /\ cloud = prev.cloud)
    => /\ prev.stdout # << >>
       /\ prev.stdout[Len(prev.stdout)].what = "iplists"
       /\ prev.stdout[Len(prev.stdout)].val = iplists

(***************************************************************************)
(* C7: in a publish-mode run the first update_or_create call comes after   *)
(* every page of the scan was fetched and folded into the aggregate;       *)
(* once a call was issued, the run fetches nothing, folds nothing and      *)
(* leaves the aggregate as it is.                                          *)
(***************************************************************************)
C7_PublishAfterFullScan ==
    /\ [](calls # << >> =>
            /\ FoldedRaw = Scanned
            /\ next_token = << >>
            /\ pc \in {"publish", "done", "crashed"})
    /\ [][(calls # << >> /\ second' = second) =>
            /\ iplists' = iplists
            /\ folded' = folded
            /\ fetches' = fetches
            /\ result' = result
            /\ instances' = instances]_vars

C7_Witness ==
    /\ calls # << >>
    /\ pc = "publish"
    /\ fetches >= 2
    /\ Len(calls) < Len(iplists)

(***************************************************************************)
(* C8: the aggregate the aws script builds from describe_instances_all     *)
(* does not depend on the page size: whatever --page_size, the scan ends   *)
(* after at most one call per reservation, every listed instance is folded *)
(* exactly once, and the aggregate equals the one built from a single page *)
(* that holds the whole inventory (entries accumulate across pages).       *)
(***************************************************************************)
C8_AggregateIndependentOfPageSize ==
    provider = "aws" =>
        LET one == DescribeInstances(cloud, << >>, Len(cloud) + 1)
        IN  /\ one.NextToken = << >>
            /\ fetches <= IF Len(Reservations(cloud)) = 0 THEN 1
                          ELSE Len(Reservations(cloud))
            /\ AggregationDone =>
                   /\ FoldedRaw = one.raw
                   /\ iplists = AwsAggregateBatch(<< >>, one.ec2_list, config.untagged_group)

C8_Witness ==
    /\ provider = "aws"
    /\ AggregationDone
    /\ config.page_size < Len(Reservations(cloud))
    /\ fetches >= 2
    /\ \E i \in 1..Len(iplists) : {"ip3", "ip4"} \subseteq Elems(iplists[i].ips)

(***************************************************************************)
(* C9: two publish-mode runs over the same inventory compute the same      *)
(* aggregate, and every list named in it holds after the second run what   *)
(* it held after the first, whatever the SMC held before the first run.    *)
(***************************************************************************)
C9_PublishTwiceIsIdempotent ==
    (second /\ PublishedAll /\ PrevPublishedAll /\ cloud = prev.cloud) =>
        /\ iplists = prev.iplists
        /\ \A i \in 1..Len(iplists) :
               /\ iplists[i].name \in DOMAIN external
               /\ iplists[i].name \in DOMAIN prev.external
               /\ external[iplists[i].name] = prev.external[iplists[i].name]

C9_Witness ==
    /\ second /\ PublishedAll /\ PrevPublishedAll /\ cloud = prev.cloud
    /\ <<"o", "l", "d">> \in DOMAIN external
    /\ \E i \in 1..Len(iplists) :
           /\ iplists[i].name \in DOMAIN StaleLists
           /\ iplists[i].ips # << >>

(***************************************************************************)
(* C10: when the update_or_create call of one group fails, the failure is  *)
(* caught and the publish loop still issues the call of every other group  *)
(* of the aggregate: the run ends with one call per group.                 *)
(***************************************************************************)
C10_FailureDoesNotStopTheLoop ==
    (pc \in {"done", "crashed"} /\ calls # << >>) =>
        {calls[i].name : i \in 1..Len(calls)} = Names(iplists)

\* The run ended with the uncaught exception e.
Raised(e) ==
    /\ pc = "crashed"
    /\ stdout # << >>
    /\ stdout[Len(stdout)] = Traceback(e)

(***************************************************************************)
(* C11: an instance without network interface (empty address list), with   *)
(* or without tags, never makes the aggregation raise in any script, and   *)
(* adds no address to any group: an aggregate folded from such instances   *)
(* only has no address in any entry.                                       *)
(***************************************************************************)
C11_NoInterfaceNeverFails ==
    (\E i \in 1..Len(Scanned) : Scanned[i].addrs = << >>) =>
        /\ ~Raised("TypeError")
        /\ (AggregationDone /\ \A i \in 1..Len(folded) : folded[i].raw.addrs = << >>)
           => \A i \in 1..Len(iplists) : iplists[i].ips = << >>

(***************************************************************************)
(* C12: when a provider listing call fails, on the first page or after     *)
(* earlier pages were folded, the run ends with the exception and without  *)
(* any update_or_create call; no call is ever issued for an aggregate      *)
(* folded from a part of the inventory.                                    *)
(***************************************************************************)
C12_ListingFailureIsFatal ==
    /\ Raised("ProviderError") =>
           /\ calls = << >>
           /\ exit_code = 1
           /\ second => external = prev.external
    /\ calls # << >> => FoldedRaw = Scanned

C12_Witness ==
    /\ Raised("ProviderError")
    /\ ~report_only
    /\ logged_in
    /\ iplists # << >>
    /\ folded # << >>
    /\ Len(folded) < Len(Scanned)

(***************************************************************************)
(* C13: the group name of a tag (key, value) is key_value when the value   *)
(* is not empty and key alone when it is empty, in all three scripts (in   *)
(* aws after the spaces of key and value became underscores): the names of *)
(* the aggregate are those of the tags of the folded instances, and the    *)
(* fallback names.                                                         *)
(***************************************************************************)
C13_ClaimedName(tag) ==
    LET key == IF provider = "aws" THEN ReplaceSpaces(tag.Key) ELSE tag.Key
        value == IF provider = "aws" THEN ReplaceSpaces(tag.Value) ELSE tag.Value
    IN  IF value # << >> THEN key \o <<"_">> \o value ELSE key

C13_GroupNameRule ==
    AggregationDone =>
        /\ \A i \in 1..Len(folded) :
               \A j \in 1..Len(NonNameTags(folded[i].raw)) :
                   C13_ClaimedName(NonNameTags(folded[i].raw)[j]) \in Names(iplists)
        /\ Names(iplists) \subseteq
               UNION { {C13_ClaimedName(folded[i].raw.tags[j]) :
                            j \in 1..Len(folded[i].raw.tags)}
                       \cup {FallbackName(folded[i].raw)} : i \in 1..Len(folded) }

(***************************************************************************)
(* C14: a tag keyed Name is no grouping tag in any script: no entry of the *)
(* aggregate is named after a Name tag, and an instance whose only tag is  *)
(* Name is treated as untagged (its addresses go to the fallback group or  *)
(* nowhere, as those of an instance without tags).                         *)
(***************************************************************************)
C14_NameTagIsNoGroup ==
    AggregationDone =>
        \A i \in 1..Len(folded) :
            LET raw == folded[i].raw
                nametags == SelectSeq(raw.tags, LAMBDA t : t.Key = NameKey)
            IN  /\ \A j \in 1..Len(nametags) :
                       C13_ClaimedName(nametags[j]) \notin Names(iplists)
                /\ (nametags # << >> /\ NonNameTags(raw) = << >>)
                   => folded[i].received \subseteq
                          {[name |-> FallbackName(raw), times |-> 1]}

(***************************************************************************)
(* C15: the gcp script run with --zone reaches the aggregation loop, folds *)
(* the instances of that zone by label as the all-zones path folds them,   *)
(* and ends with exit code 0 unless a call to the provider or to the SMC   *)
(* fails.                                                                  *)
(***************************************************************************)
C15_ZoneScanAggregates ==
    (provider = "gcp" /\ config.zone # << >>) =>
        /\ pc = "crashed" => (Raised("ProviderError") \/ Raised("SMCException"))
        /\ AggregationDone =>
               LET zone == ScopeGroup(cloud, config.zone)
                   hosts == [i \in 1..Len(zone) |-> HostData(zone[i])]
               IN  iplists = GcpAggregate(<< >>, hosts).iplists

====
